---- MODULE Spec2Model ----
(***************************************************************************)
(* Status-ingestion backend (fezwd-backend).  The repository holds two     *)
(* builds of the server:                                                   *)
(*   src/server.js         statuses kept in one JSON document (table       *)
(*                         snapshot, row 'main'), change detection by a    *)
(*                         fingerprint, log retention, no ack route;       *)
(*   src/unnamed/part_000  statuses kept in a table of their own, a log    *)
(*                         row per accepted report, the ack route.         *)
(* The variable program says which build is running.  Each HTTP handler    *)
(* is one action; the stores are the PostgreSQL tables.                    *)
(***************************************************************************)
EXTENDS Integers, Sequences, FiniteSets, TLC

VARIABLES
    program,      \* which build runs: "server.js" or "part_000"
    poolSet,      \* server.js: DATABASE_URL was set, so pool is not null
    now,          \* Date.now(), in ms
    snapshotData, \* server.js: column data of snapshot row 'main'
    generatedAtCol, \* server.js: column generated_at of snapshot row 'main'
    statuses,     \* part_000: the rows of table statuses
    logs,         \* the rows of table logs
    nextId,       \* the next fresh log id (randomUUID / gen_random_uuid)
    okLogIds,     \* ids of the log rows made by reports that changed a severity to ok (history)
    last,         \* the request handled last and its response (history)
    calls         \* the requests in flight: each handler's position and locals

vars == <<program, poolSet, now, snapshotData, generatedAtCol, statuses, logs, nextId, okLogIds, last, calls>>

store == <<snapshotData, generatedAtCol, statuses, logs>>

-----------------------------------------------------------------------------
(* Bounds of the model *)

\* clock ticks taken in a behaviour
MaxTicks == 1
\* log ids handed out in a behaviour
MaxLogIds == 3
\* The retention limit of server.js (200 rows, lines 94 and 112), scaled down.
RetentionN == 2
\* requests handled side by side in a behaviour
MaxCalls == 3

(* Program constants *)

\* +/- 120 s: part_000 line 57 (120000), server.js line 67 (2 * 60 * 1000)
WindowMs == 120000

-----------------------------------------------------------------------------
(* JavaScript values *)

\* undefined: an absent header or body field
Undefined == "<undefined>"

\* !v for the strings of the model
Falsy(v) == v = Undefined \/ v = ""

SHARED_SECRET == "change-me"

\* the placeholder detail of server.js, the one-character string U+2014 (em
\* dash), written in ASCII; part_000's placeholder is the hyphen "-"
EmDash == "--"

\* Number(ts) for the header values of the model: finite numbers, Infinity, NaN
NumberOf(s) ==
    CASE s = "79000"  -> [finite |-> TRUE, val |-> 79000]
      [] s = "80000"  -> [finite |-> TRUE, val |-> 80000]
      [] s = "81000"  -> [finite |-> TRUE, val |-> 81000]
      [] s = "200000" -> [finite |-> TRUE, val |-> 200000]
      [] s = "2e5"    -> [finite |-> TRUE, val |-> 200000]
      [] s = "320000" -> [finite |-> TRUE, val |-> 320000]
      [] s = "321000" -> [finite |-> TRUE, val |-> 321000]
      [] OTHER        -> [finite |-> FALSE, val |-> 0]

Abs(n) == IF n < 0 THEN -n ELSE n

\* String.prototype.toLowerCase for the component names of the model
ToLowerCase(s) ==
    CASE s = "Net" -> "net"
      [] s = "NET" -> "net"
      [] s = "DB"  -> "db"
      [] s = "Internet" -> "internet"
      [] OTHER     -> s

\* The raw body express.json hands to verify: the JSON text of the body
RawBody(body) ==
    "{" \o body.component \o "," \o body.severity \o "," \o body.reason
        \o "," \o body.detail \o "," \o
        (IF body.updatedAt = 0 THEN "" ELSE "5") \o "}"

-----------------------------------------------------------------------------
(* Signature verification *)

\* HMAC-SHA256 in hex, as a collision-free function of (secret, msg)
hmacHex(secret, msg) == "hmac(" \o secret \o ";" \o msg \o ")"

\* `${ts}.${nonce}.${body}`
Payload(ts, nonce, raw) == ts \o "." \o nonce \o "." \o raw

\* the bytes of a SHA-256 digest
DigestBytes == 32

EndsWith(s, t) == Len(s) >= Len(t) /\ SubSeq(s, Len(s) - Len(t) + 1, Len(s)) = t

DropEnd(s, n) == SubSeq(s, 1, Len(s) - n)

\* the digest h spelled with upper-case hex digits
UpperCaseHex(h) == "HMAC(" \o SubSeq(h, 6, Len(h))

\* Buffer.from(s, "hex") for the signature headers of the model: a digest in
\* either case is its 32 bytes; decoding stops at the first pair that is no
\* hex digit pair ("zz") and drops a last digit without a partner ("0"); a
\* further pair "00" is one more byte; "dead" is two bytes; a string that
\* starts with no hex digit pair is the empty buffer.
RECURSIVE BufferFromHex(_)
BufferFromHex(s) ==
    IF EndsWith(s, "zz") THEN BufferFromHex(DropEnd(s, 2))
    ELSE IF EndsWith(s, "00")
         THEN LET b == BufferFromHex(DropEnd(s, 2))
              IN  [length |-> b.length + 1, bytes |-> b.bytes \o "00"]
    ELSE IF EndsWith(s, "0") THEN BufferFromHex(DropEnd(s, 1))
    ELSE IF Len(s) >= 5 /\ SubSeq(s, 1, 5) \in {"hmac(", "HMAC("}
         THEN [length |-> DigestBytes, bytes |-> "hmac(" \o SubSeq(s, 6, Len(s))]
    ELSE IF s = "dead" THEN [length |-> 2, bytes |-> "dead"]
    ELSE [length |-> 0, bytes |-> ""]

\* crypto.timingSafeEqual: throws a RangeError when the lengths differ
cryptoTimingSafeEqual(ba, bb) ==
    [threw |-> ba.length # bb.length,
     equal |-> ba.length = bb.length /\ ba.bytes = bb.bytes]

timingSafeEq(a, b) ==
    LET ba == BufferFromHex(a)
        bb == BufferFromHex(b)
    IN  IF ba.length # bb.length THEN FALSE
        ELSE LET r == cryptoTimingSafeEqual(ba, bb)
             IN  IF r.threw THEN FALSE ELSE r.equal

\* Skewed with the edge of the window shut out
MutSkewed(clock, tsVal) == Abs(clock - tsVal) >= WindowMs

\* part_000 lines 56-57: skew = Math.abs(Date.now() - tsNum); skew > 120000
Skewed(clock, tsVal) == Abs(clock - tsVal) > WindowMs

\* part_000: verifyHmac
verifyHmacTables(req, clock) ==
    LET ts == req.ts
        nonce == req.nonce
        sig == req.sig
        tsNum == NumberOf(ts)
    IN  IF Falsy(ts) \/ Falsy(nonce) \/ Falsy(sig) THEN [ok |-> FALSE, error |-> "missing_headers"]
        ELSE IF ~tsNum.finite THEN [ok |-> FALSE, error |-> "bad_ts"]
        ELSE IF Skewed(clock, tsNum.val) THEN [ok |-> FALSE, error |-> "ts_skew"]
        ELSE IF ~timingSafeEq(hmacHex(SHARED_SECRET, Payload(ts, nonce, RawBody(req.body))), sig)
             THEN [ok |-> FALSE, error |-> "bad_signature"]
        ELSE [ok |-> TRUE, error |-> "ok"]

\* the catch block left out: the RangeError leaves the verifier
MutCatchServer == [ok |-> FALSE, error |-> "RangeError"]

\* server.js lines 78-80: the catch block of verifyHmac
CatchServer == [ok |-> FALSE, error |-> "bad_signature"]

\* server.js: verifyHmac
verifyHmacServer(req, clock) ==
    LET ts == req.ts
        nonce == req.nonce
        sig == req.sig
        tsNum == NumberOf(ts)
        expected == hmacHex(SHARED_SECRET, Payload(ts, nonce, RawBody(req.body)))
        r == cryptoTimingSafeEqual(BufferFromHex(expected), BufferFromHex(sig))
    IN  IF Falsy(ts) \/ Falsy(nonce) \/ Falsy(sig) THEN [ok |-> FALSE, error |-> "missing_headers"]
        ELSE IF ~tsNum.finite \/ Abs(clock - tsNum.val) > 2 * 60 * 1000
             THEN [ok |-> FALSE, error |-> "ts_out_of_window"]
        ELSE IF r.threw THEN CatchServer
        ELSE [ok |-> r.equal, error |-> IF r.equal THEN "ok" ELSE "bad_signature"]

-----------------------------------------------------------------------------
(* The stores *)

\* server.js initDb, lines 47-55: the document of snapshot row 'main'
BaseSnapshot(clock) ==
    [generatedAt |-> clock,
     statuses |-> << [id |-> "internet", name |-> "Internet", severity |-> "ok",
                      detail |-> EmDash, updatedAt |-> clock] >>,
     logs |-> << >>]

\* a snapshot row that was never written (part_000 has no such table)
NoSnapshot == [generatedAt |-> 0, statuses |-> << >>, logs |-> << >>]

\* the StatusRecords the running build holds
StatusRecords ==
    IF program = "server.js"
    THEN {snapshotData.statuses[i] : i \in 1..Len(snapshotData.statuses)}
    ELSE statuses

\* how many StatusRecords are stored, duplicates counted
StatusCount ==
    IF program = "server.js" THEN Len(snapshotData.statuses) ELSE Cardinality(statuses)

Min(S) == CHOOSE m \in S : \A k \in S : m <= k

\* what a handler leaves in last
Handled(op, req, status, error, before, appended, returned) ==
    [op |-> op, req |-> req, status |-> status, error |-> error,
     before |-> before, appended |-> appended, returned |-> returned]

\* the handlers are async functions: each await hands control to the other
\* requests in flight.  A call is a handler's position (pc), its locals (doc,
\* top, sts), its response (status, error) and its history (the rest).
Slots == 1..MaxCalls

Call(op, pc, req) ==
    [op |-> op, pc |-> pc, req |-> req, doc |-> NoSnapshot, top |-> {}, sts |-> {},
     status |-> 0, error |-> "", failed |-> FALSE, escaped |-> FALSE,
     changed |-> FALSE, wroteStatus |-> FALSE, wroteLog |-> FALSE, moments |-> {}]

Idle == Call("idle", "idle", 0)

\* the report changes the severity of an existing record to ok
ChangesToOk(before, body) ==
    /\ body.severity = "ok"
    /\ \E r \in before : r.severity # "ok"

-----------------------------------------------------------------------------
(* server.js: POST /api/ingest *)

\* detail || (reason ? `Grund: ${reason}` : EmDash)
DetailServer(body) ==
    IF ~Falsy(body.detail) THEN body.detail
    ELSE IF ~Falsy(body.reason) THEN "Grund: " \o body.reason
    ELSE EmDash

\* `${st.severity}|${st.detail}`
Key(st) == st.severity \o "|" \o st.detail

\* lines 134-148: load the document, find or create the record, update it
Reconcile(snap, body, clock) ==
    LET id == ToLowerCase(body.component)
        found == {i \in 1..Len(snap.statuses) : snap.statuses[i].id = id}
        created == [id |-> id, name |-> body.component, severity |-> "ok",
                    detail |-> EmDash, updatedAt |-> clock]
        sts == IF found = {} THEN Append(snap.statuses, created) ELSE snap.statuses
        i == IF found = {} THEN Len(sts) ELSE Min(found)
        st == sts[i]
        upd == [st EXCEPT !.severity = body.severity,
                          !.detail = DetailServer(body),
                          !.updatedAt = IF body.updatedAt # 0 THEN body.updatedAt ELSE clock]
    IN  [snap |-> [snap EXCEPT !.generatedAt = clock, !.statuses = [sts EXCEPT ![i] = upd]],
         oldKey |-> Key(st),
         newKey |-> Key(upd)]

\* LogTypeServer without the case warning
MutLogTypeServer(severity) == IF severity = "alarm" THEN "alarm" ELSE "info"

\* lines 151-161: the log row of a change
LogTypeServer(severity) ==
    IF severity = "alarm" THEN "alarm"
    ELSE IF severity = "warning" THEN "warning"
    ELSE "info"

TitleServer(body) ==
    LET title == IF body.severity = "ok" THEN body.component \o " wieder OK"
                 ELSE IF body.severity = "alarm" THEN body.component \o " Ausfall"
                 ELSE body.component \o " eingeschraenkt"
    IN  IF ~Falsy(body.reason) THEN title \o " (" \o body.reason \o ")" ELSE title

\* line 160: acknowledged: severity === "ok"
AckedAtCreation(severity) == severity = "ok"

LogRowServer(body, id, clock) ==
    [id |-> id, ts |-> clock, type |-> LogTypeServer(body.severity),
     component |-> body.component, title |-> TitleServer(body),
     acknowledged |-> AckedAtCreation(body.severity)]

\* addLog's DELETE: the rows ORDER BY ts DESC OFFSET 200 go.  Rows of equal ts
\* come in no defined order, so any choice among them is a possible outcome.
RetainedSets(rows) ==
    {keep \in SUBSET rows :
        /\ Cardinality(keep) = IF Cardinality(rows) < RetentionN THEN Cardinality(rows)
                               ELSE RetentionN
        /\ \A k \in keep : \A d \in rows \ keep : k.ts >= d.ts}

\* lines 126-132: the early returns, in the order of the code
GateServer(pool, v, body) ==
    IF ~pool THEN [status |-> 500, error |-> "DATABASE_URL not set"]
    ELSE IF ~v.ok THEN [status |-> 401, error |-> v.error]
    ELSE IF Falsy(body.component) \/ Falsy(body.severity)
         THEN [status |-> 400, error |-> "missing_component_or_severity"]
    ELSE [status |-> 200, error |-> ""]

IngestServer(req) ==
    /\ program = "server.js"
    /\ LET body == req.body
           gate == GateServer(poolSet, verifyHmacServer(req, now), body)
           before == {r \in StatusRecords : r.id = ToLowerCase(body.component)}
       IN  IF gate.status # 200
           THEN /\ last' = Handled("ingest", req, gate.status, gate.error, {}, {}, {})
                /\ UNCHANGED <<store, nextId, okLogIds>>
           ELSE LET rec == Reconcile(snapshotData, body, now)
                    row == LogRowServer(body, nextId, now)
                IN  /\ IF rec.newKey # rec.oldKey
                       THEN /\ nextId <= MaxLogIds
                            /\ \E keep \in RetainedSets(logs \cup {row}) : logs' = keep
                            /\ nextId' = nextId + 1
                            /\ okLogIds' = IF ChangesToOk(before, body)
                                           THEN okLogIds \cup {row.id} ELSE okLogIds
                            /\ last' = Handled("ingest", req, 200, "", before, {row}, {})
                       ELSE /\ UNCHANGED <<logs, nextId, okLogIds>>
                            /\ last' = Handled("ingest", req, 200, "", before, {}, {})
                    /\ snapshotData' = rec.snap
                    /\ generatedAtCol' = now
                    /\ UNCHANGED statuses
    /\ UNCHANGED <<calls, program, poolSet, now>>

-----------------------------------------------------------------------------
(* part_000: POST /api/ingest *)

\* detail || reason || "-"
DetailTables(body) ==
    IF ~Falsy(body.detail) THEN body.detail
    ELSE IF ~Falsy(body.reason) THEN body.reason
    ELSE "-"

\* Upsert as a plain INSERT into a table without the key
MutUpsert(rows, row) == rows \cup {row}

\* INSERT INTO statuses ... ON CONFLICT (id) DO UPDATE: id is the primary key
Upsert(rows, row) == {r \in rows : r.id # row.id} \cup {row}

StatusRowTables(body, ts) ==
    [id |-> ToLowerCase(body.component), name |-> body.component,
     severity |-> body.severity, detail |-> DetailTables(body), updatedAt |-> ts]

TitleTables(body) ==
    LET title == body.component \o " " \o body.severity
    IN  IF ~Falsy(body.reason) THEN title \o " (" \o body.reason \o ")" ELSE title

\* AckedAtCreationTables left at the column default
MutAckedAtCreationTables(severity) == FALSE

\* line 177: acknowledged is severity === "ok"
AckedAtCreationTables(severity) == severity = "ok"

LogRowTables(body, id, ts) ==
    [id |-> id, ts |-> ts, type |-> body.severity, component |-> body.component,
     title |-> TitleTables(body), acknowledged |-> AckedAtCreationTables(body.severity)]

\* GateTables with the field test ahead of the verifier
MutGateTables(v, body) ==
    IF Falsy(body.component) \/ Falsy(body.severity)
    THEN [status |-> 400, error |-> "missing_fields"]
    ELSE IF ~v.ok THEN [status |-> 401, error |-> v.error]
    ELSE [status |-> 200, error |-> ""]

\* lines 134-141: the early returns, in the order of the code
GateTables(v, body) ==
    IF ~v.ok THEN [status |-> 401, error |-> v.error]
    ELSE IF Falsy(body.component) \/ Falsy(body.severity)
         THEN [status |-> 400, error |-> "missing_fields"]
    ELSE [status |-> 200, error |-> ""]

IngestTables(req) ==
    /\ program = "part_000"
    /\ LET body == req.body
           gate == GateTables(verifyHmacTables(req, now), body)
           before == {r \in StatusRecords : r.id = ToLowerCase(body.component)}
           ts == IF body.updatedAt # 0 THEN body.updatedAt ELSE now
       IN  IF gate.status # 200
           THEN /\ last' = Handled("ingest", req, gate.status, gate.error, {}, {}, {})
                /\ UNCHANGED <<store, nextId, okLogIds>>
           ELSE LET row == LogRowTables(body, nextId, ts)
                IN  /\ nextId <= MaxLogIds
                    /\ statuses' = Upsert(statuses, StatusRowTables(body, ts))
                    /\ logs' = logs \cup {row}
                    /\ nextId' = nextId + 1
                    /\ okLogIds' = IF ChangesToOk(before, body)
                                   THEN okLogIds \cup {row.id} ELSE okLogIds
                    /\ last' = Handled("ingest", req, 200, "", before, {row}, {})
                    /\ UNCHANGED <<snapshotData, generatedAtCol>>
    /\ UNCHANGED <<calls, program, poolSet, now>>

-----------------------------------------------------------------------------
(* part_000: POST /api/logs/:id/ack *)

\* column id is of type UUID: a parameter that is no UUID makes the query fail
IsUuid(id) == id >= 1

\* Ackable without the test of acknowledged
MutAckableAgain(rows, id) ==
    {r \in rows : r.id = id /\ r.type \in {"warning", "alarm"}}

\* Ackable without the test of type
MutAckableAnyType(rows, id) ==
    {r \in rows : r.id = id /\ r.acknowledged = FALSE}

\* WHERE id = $1 AND acknowledged = FALSE AND type IN ('warning','alarm')
Ackable(rows, id) ==
    {r \in rows : r.id = id /\ r.acknowledged = FALSE /\ r.type \in {"warning", "alarm"}}

Ack(id) ==
    /\ program = "part_000"
    /\ LET before == {r \in logs : r.id = id}
           hit == Ackable(logs, id)
           updated == {[r EXCEPT !.acknowledged = TRUE] : r \in hit}
       IN  IF ~IsUuid(id)
           THEN /\ last' = Handled("ack", id, 500, "server_error", before, {}, {})
                /\ UNCHANGED logs
           ELSE IF hit = {}
           THEN /\ last' = Handled("ack", id, 400, "not_ackable_or_not_found", before, {}, {})
                /\ UNCHANGED logs
           ELSE /\ logs' = (logs \ hit) \cup updated
                /\ last' = Handled("ack", id, 200, "", before, {}, updated)
    /\ UNCHANGED <<calls, program, poolSet, now, snapshotData, generatedAtCol, statuses, nextId, okLogIds>>

-----------------------------------------------------------------------------
(* GET /api/snapshot *)

\* ORDER BY ts DESC LIMIT 200: the latest rows; rows of equal ts come in no
\* defined order, so any choice among them is a possible outcome
LatestSets(rows) ==
    {top \in SUBSET rows :
        /\ Cardinality(top) = IF Cardinality(rows) < RetentionN THEN Cardinality(rows)
                              ELSE RetentionN
        /\ \A k \in top : \A d \in rows \ top : k.ts >= d.ts}

\* server.js: the stored document with its logs replaced by getLogs()
ResponseServer(doc, top) ==
    [generatedAt |-> doc.generatedAt, statuses |-> doc.statuses, logs |-> top]

\* part_000: loadSnapshot()
loadSnapshot(sts, top, clock) ==
    [generatedAt |-> clock, statuses |-> sts, logs |-> top]

\* Snapshot that saves the document it has read, as ingest does
MutSnapshot ==
    /\ \E top \in LatestSets(logs) :
          last' = Handled("snapshot", 0, 200, "", {}, {},
                          IF program = "server.js" THEN ResponseServer(snapshotData, top)
                          ELSE loadSnapshot(statuses, top, now))
    /\ generatedAtCol' = now
    /\ UNCHANGED <<calls, program, poolSet, now, snapshotData, statuses, logs, nextId, okLogIds>>

Snapshot ==
    /\ IF program = "server.js" /\ ~poolSet
       THEN last' = Handled("snapshot", 0, 500, "DATABASE_URL not set", {}, {}, {})
       ELSE \E top \in LatestSets(logs) :
               last' = Handled("snapshot", 0, 200, "", {}, {},
                               IF program = "server.js" THEN ResponseServer(snapshotData, top)
                               ELSE loadSnapshot(statuses, top, now))
    /\ UNCHANGED <<calls, program, poolSet, now, store, nextId, okLogIds>>

-----------------------------------------------------------------------------
(* The environment: the clock and the requests that arrive *)

Tick ==
    /\ now < 200000 + MaxTicks * 1000
    /\ now' = now + 1000
    /\ last' = Handled("tick", 0, 0, "", {}, {}, {})
    /\ UNCHANGED <<calls, program, poolSet, store, nextId, okLogIds>>

\* a request signed by a holder of the secret
Signed(ts, nonce, body) ==
    [ts |-> ts, nonce |-> nonce,
     sig |-> hmacHex(SHARED_SECRET, Payload(ts, nonce, RawBody(body))), body |-> body]

Body(component, severity, reason, detail, updatedAt) ==
    [component |-> component, severity |-> severity, reason |-> reason,
     detail |-> detail, updatedAt |-> updatedAt]

\* the reports of the probes
Bodies ==
    {Body("Net", "ok", Undefined, Undefined, 0),
     Body("Net", "warning", Undefined, Undefined, 0),
     Body("net", "alarm", "r", Undefined, 0),
     Body("net", "ok", Undefined, "x", 5),
     Body("DB", "degraded", Undefined, Undefined, 0)}

\* reports that lack a mandatory field
MissingBodies ==
    {Body(Undefined, "ok", Undefined, Undefined, 0),
     Body("Net", "", Undefined, "x", 0)}

\* a report whose signature is of the wrong length
BadlySigned(body) == [Signed("200000", "n1", body) EXCEPT !.sig = "dead"]

IngestRequests ==
    {Signed("200000", "n1", b) : b \in Bodies \cup MissingBodies}
    \cup {BadlySigned(Body(Undefined, "ok", Undefined, Undefined, 0))}

AckIds == 0 .. MaxLogIds + 1

Ingest(req) == IngestServer(req) \/ IngestTables(req)

Init ==
    /\ program \in {"server.js", "part_000"}
    /\ poolSet \in (IF program = "server.js" THEN BOOLEAN ELSE {TRUE})
    /\ now = 200000
    /\ snapshotData = IF program = "server.js" /\ poolSet THEN BaseSnapshot(now) ELSE NoSnapshot
    /\ generatedAtCol = IF program = "server.js" /\ poolSet THEN now ELSE 0
    /\ statuses = {}
    /\ logs = {}
    /\ nextId = 1
    /\ okLogIds = {}
    /\ last = Handled("start", 0, 0, "", {}, {}, {})
    /\ calls = [c \in Slots |-> Idle]

Next ==
    \/ \E req \in IngestRequests : Ingest(req)
    \/ \E id \in AckIds : Ack(id)
    \/ Snapshot
    \/ Tick

Spec == Init /\ [][Next]_vars

-----------------------------------------------------------------------------
(* The verifier under attack: requests whose headers were lost, mangled or    *)
(* replaced after signing, and requests signed with another key.              *)

TsHeaders ==
    {Undefined, "", "abc", "Infinity", "79000", "80000", "200000", "2e5", "320000", "321000"}

SignedTs == {"79000", "80000", "2e5", "320000", "321000"}

NonceHeaders == {Undefined, "n1", "n2"}

AuthBodies ==
    {Body("Net", "warning", Undefined, Undefined, 0),
     Body("Net", "", Undefined, "x", 0)}

\* what an honest probe sends
HonestRequests ==
    {Signed(t, "n1", b) : t \in SignedTs, b \in AuthBodies}

\* an honest request with one part replaced and the signature left as it was
Tampered(r) ==
    {[r EXCEPT !.ts = t] : t \in TsHeaders}
    \cup {[r EXCEPT !.nonce = n] : n \in NonceHeaders}
    \cup {[r EXCEPT !.body = b] : b \in AuthBodies}
    \cup {[r EXCEPT !.sig = x] :
            x \in {Undefined, "dead", "nothex",
                   hmacHex("other-key", Payload(r.ts, r.nonce, RawBody(r.body)))}}

\* requests with two defects at once
DoublyBad ==
    {[ts |-> t, nonce |-> n, sig |-> x, body |-> b] :
        t \in {Undefined, "abc", "79000"}, n \in {Undefined, "n1"},
        x \in {Undefined, "dead"}, b \in AuthBodies}

\* an honest request whose signature header was respelled or lengthened
Respelled(r) ==
    {[r EXCEPT !.sig = x] :
        x \in {UpperCaseHex(r.sig), r.sig \o "zz", r.sig \o "0", r.sig \o "00"}}

AuthRequests ==
    UNION {Tampered(r) \cup Respelled(r) : r \in HonestRequests} \cup DoublyBad

NextAuth ==
    \/ \E req \in AuthRequests : Ingest(req)
    \/ Tick

SpecAuth == Init /\ [][NextAuth]_vars


-----------------------------------------------------------------------------
(* The handlers step by step: one step per awaited query, other requests      *)
(* running in between.                                                        *)

\* what the status store and the log store hold
MomentOf(doc, sts, rows) ==
    [statuses |-> IF program = "server.js" THEN doc.statuses ELSE sts, logs |-> rows]

Moment == MomentOf(snapshotData, statuses, logs)

\* the call has its response, or its handler has ended without one
Ended(call) == call.pc \in {"done", "escaped"}

\* history: every snapshot call in flight sees the stores as a step leaves them
Watch(cs, moment) ==
    [c \in Slots |->
        IF cs[c].op = "snapshot" /\ ~Ended(cs[c])
        THEN [cs[c] EXCEPT !.moments = @ \cup {moment}]
        ELSE cs[c]]

\* slots are taken in order
Free(c) == calls[c].op = "idle" /\ \A d \in 1..(c - 1) : calls[d].op # "idle"

Respond(call, status, error) ==
    [call EXCEPT !.pc = "done", !.status = status, !.error = error]

\* POST /api/ingest up to its first await: the early returns
StartIngest(c, req) ==
    /\ Free(c)
    /\ LET gate == IF program = "server.js"
                   THEN GateServer(poolSet, verifyHmacServer(req, now), req.body)
                   ELSE GateTables(verifyHmacTables(req, now), req.body)
           call == Call("ingest", IF program = "server.js" THEN "get" ELSE "upsert", req)
       IN  calls' = [calls EXCEPT ![c] = IF gate.status # 200
                                         THEN Respond(call, gate.status, gate.error)
                                         ELSE call]
    /\ UNCHANGED <<program, poolSet, now, store, nextId, okLogIds, last>>

\* GET /api/snapshot up to its first await
StartSnapshot(c) ==
    /\ Free(c)
    /\ LET call == [Call("snapshot", IF program = "server.js" THEN "get" ELSE "logs", 0)
                      EXCEPT !.moments = {Moment}]
       IN  calls' = [calls EXCEPT ![c] = IF program = "server.js" /\ ~poolSet
                                         THEN Respond(call, 500, "DATABASE_URL not set")
                                         ELSE call]
    /\ UNCHANGED <<program, poolSet, now, store, nextId, okLogIds, last>>

\* POST /api/logs/:id/ack up to its await
StartAck(c, id) ==
    /\ Free(c)
    /\ program = "part_000"
    /\ calls' = [calls EXCEPT ![c] = Call("ack", "update", id)]
    /\ UNCHANGED <<program, poolSet, now, store, nextId, okLogIds, last>>

\* server.js getSnapshot(): SELECT data FROM snapshot.  Ingest goes on, without
\* an await, to reconcile the document it got (lines 135-148).
GetSnapshotStep(c) ==
    /\ calls[c].pc = "get"
    /\ LET call == calls[c]
           rec == Reconcile(snapshotData, call.req.body, now)
       IN  calls' = [calls EXCEPT ![c] =
                IF call.op = "snapshot"
                THEN [call EXCEPT !.doc = snapshotData, !.pc = "logs"]
                ELSE [call EXCEPT !.doc = rec.snap,
                                  !.changed = rec.newKey # rec.oldKey,
                                  !.pc = IF rec.newKey # rec.oldKey THEN "insert" ELSE "save"]]
    /\ UNCHANGED <<program, poolSet, now, store, nextId, okLogIds, last>>

\* part_000 lines 146-163: the upsert of the status row
UpsertStep(c) ==
    /\ calls[c].pc = "upsert"
    /\ LET call == calls[c]
           body == call.req.body
           ts == IF body.updatedAt # 0 THEN body.updatedAt ELSE now
           row == StatusRowTables(body, ts)
       IN  /\ statuses' = Upsert(statuses, row)
           /\ UNCHANGED <<snapshotData, generatedAtCol, logs>>
           /\ calls' = Watch([calls EXCEPT ![c] =
                  [call EXCEPT !.pc = "insert", !.wroteStatus = TRUE,
                               !.changed = ~\E r \in statuses :
                                   /\ r.id = row.id
                                   /\ r.severity = row.severity
                                   /\ r.detail = row.detail]],
                  MomentOf(snapshotData, Upsert(statuses, row), logs))
    /\ UNCHANGED <<program, poolSet, now, nextId, okLogIds, last>>

\* INSERT INTO logs: server.js addLog (lines 106-109), part_000 lines 167-179
InsertLogStep(c) ==
    /\ calls[c].pc = "insert"
    /\ nextId <= MaxLogIds
    /\ LET call == calls[c]
           body == call.req.body
           ts == IF body.updatedAt # 0 THEN body.updatedAt ELSE now
           row == IF program = "server.js" THEN LogRowServer(body, nextId, now)
                  ELSE LogRowTables(body, nextId, ts)
       IN  /\ logs' = logs \cup {row}
           /\ UNCHANGED <<snapshotData, generatedAtCol, statuses>>
           /\ calls' = Watch([calls EXCEPT ![c] =
                  [call EXCEPT !.wroteLog = TRUE,
                               !.pc = IF program = "server.js" THEN "delete" ELSE "logs"]],
                  MomentOf(snapshotData, statuses, logs \cup {row}))
    /\ nextId' = nextId + 1
    /\ UNCHANGED <<program, poolSet, now, okLogIds, last>>

\* server.js addLog (lines 110-113): DELETE ... OFFSET 200
DeleteStep(c) ==
    /\ calls[c].pc = "delete"
    /\ \E keep \in RetainedSets(logs) :
          /\ logs' = keep
          /\ calls' = Watch([calls EXCEPT ![c] = [calls[c] EXCEPT !.pc = "save"]],
                            MomentOf(snapshotData, statuses, keep))
    /\ UNCHANGED <<snapshotData, generatedAtCol, statuses>>
    /\ UNCHANGED <<program, poolSet, now, nextId, okLogIds, last>>

\* server.js saveSnapshot(snap) and res.json (lines 164-165)
SaveSnapshotStep(c) ==
    /\ calls[c].pc = "save"
    /\ snapshotData' = calls[c].doc
    /\ generatedAtCol' = now
    /\ UNCHANGED <<statuses, logs>>
    /\ calls' = Watch([calls EXCEPT ![c] =
                         [Respond(calls[c], 200, "") EXCEPT !.wroteStatus = TRUE]],
                      MomentOf(calls[c].doc, statuses, logs))
    /\ UNCHANGED <<program, poolSet, now, nextId, okLogIds, last>>

\* SELECT ... FROM logs ORDER BY ts DESC LIMIT 200: server.js getLogs, after
\* which the handler answers; part_000 loadSnapshot's first query
ReadLogsStep(c) ==
    /\ calls[c].pc = "logs"
    /\ \E top \in LatestSets(logs) :
          calls' = [calls EXCEPT ![c] =
              IF program = "server.js"
              THEN [Respond(calls[c], 200, "") EXCEPT !.top = top]
              ELSE [calls[c] EXCEPT !.top = top, !.pc = "statuses"]]
    /\ UNCHANGED <<program, poolSet, now, store, nextId, okLogIds, last>>

\* part_000 loadSnapshot's second query, after which the handler answers
ReadStatusesStep(c) ==
    /\ calls[c].pc = "statuses"
    /\ calls' = [calls EXCEPT ![c] = [Respond(calls[c], 200, "") EXCEPT !.sts = statuses]]
    /\ UNCHANGED <<program, poolSet, now, store, nextId, okLogIds, last>>

\* part_000 lines 194-211: the UPDATE of ack and its answer
AckUpdateStep(c) ==
    /\ calls[c].pc = "update"
    /\ LET id == calls[c].req
           hit == Ackable(logs, id)
           updated == {[r EXCEPT !.acknowledged = TRUE] : r \in hit}
       IN  IF ~IsUuid(id)
           THEN /\ calls' = [calls EXCEPT ![c] =
                       [Respond(calls[c], 500, "server_error") EXCEPT !.failed = TRUE]]
                /\ UNCHANGED logs
           ELSE IF hit = {}
           THEN /\ calls' = [calls EXCEPT ![c] =
                       Respond(calls[c], 400, "not_ackable_or_not_found")]
                /\ UNCHANGED logs
           ELSE /\ logs' = (logs \ hit) \cup updated
                /\ calls' = Watch([calls EXCEPT ![c] = Respond(calls[c], 200, "")],
                                  MomentOf(snapshotData, statuses, (logs \ hit) \cup updated))
    /\ UNCHANGED <<program, poolSet, now, snapshotData, generatedAtCol, statuses,
                   nextId, okLogIds, last>>

\* the positions at which a handler awaits a query
QueryPcs == {"get", "upsert", "insert", "delete", "save", "logs", "statuses", "update"}

\* part_000 wraps the handlers of snapshot and ack in try/catch; its ingest
\* handler and both handlers of server.js have none
Caught(call) == program = "part_000" /\ call.op \in {"snapshot", "ack"}

\* pool.query rejects: the statement has no effect.  With try/catch the handler
\* answers 500 server_error.  Without, the rejection leaves the async handler:
\* Express 4 sends no response, Express 5 lets its final handler answer 500.
QueryFails(c) ==
    /\ calls[c].pc \in QueryPcs
    /\ IF Caught(calls[c])
       THEN calls' = [calls EXCEPT ![c] =
                [Respond(calls[c], 500, "server_error") EXCEPT !.failed = TRUE]]
       ELSE \E answer \in {0, 500} :
               calls' = [calls EXCEPT ![c] =
                   [calls[c] EXCEPT !.pc = "escaped", !.status = answer,
                                    !.failed = TRUE, !.escaped = TRUE]]
    /\ UNCHANGED <<program, poolSet, now, store, nextId, okLogIds, last>>

\* the reports that arrive side by side
ConcBodies ==
    {Body("Net", "warning", Undefined, Undefined, 0),
     Body("DB", "degraded", Undefined, Undefined, 0)}

ConcRequests ==
    {Signed("200000", "n1", b) : b \in ConcBodies}
    \cup {BadlySigned(Body("Net", "warning", Undefined, Undefined, 0))}

ConcAckIds == {0, 1}

Step(c) ==
    \/ GetSnapshotStep(c)
    \/ UpsertStep(c)
    \/ InsertLogStep(c)
    \/ DeleteStep(c)
    \/ SaveSnapshotStep(c)
    \/ ReadLogsStep(c)
    \/ ReadStatusesStep(c)
    \/ AckUpdateStep(c)

NextConc ==
    \/ \E c \in Slots, req \in ConcRequests : StartIngest(c, req)
    \/ \E c \in Slots : StartSnapshot(c)
    \/ \E c \in Slots, id \in ConcAckIds : StartAck(c, id)
    \/ \E c \in Slots : Step(c)

\* requests arriving at any time, every query succeeding
SpecConc == Init /\ [][NextConc]_vars

NextFail ==
    \/ NextConc
    \/ \E c \in Slots : QueryFails(c)

\* requests arriving at any time, any query failing
SpecFail == Init /\ [][NextFail]_vars

-----------------------------------------------------------------------------
(* Properties *)

\* the request handled last was an ingest that passed verification and validation
Accepted == last.op = "ingest" /\ last.status = 200

\* the detail a report carries, as the running build derives it
EffectiveDetail(body) ==
    IF program = "server.js" THEN DetailServer(body) ELSE DetailTables(body)

\* the step handles an accepted report that repeats the stored severity and detail
RepeatsRecord ==
    /\ last'.op = "ingest"
    /\ last'.status = 200
    /\ \E r \in StatusRecords :
          /\ r.id = ToLowerCase(last'.req.body.component)
          /\ r.severity = last'.req.body.severity
          /\ r.detail = EffectiveDetail(last'.req.body)

\* C1: an accepted report whose severity and effective detail equal those of
\* the stored record of its component creates no log entry: the log table is
\* the same after it, however often it is repeated.
C1_RepeatedReportIsSilent == [][RepeatsRecord => logs' = logs]_vars

\* C1 holds of the build server.js, which compares the fingerprints
C1_RepeatedReportIsSilentInServerJs ==
    [][(program = "server.js" /\ RepeatsRecord) => logs' = logs]_vars

\* the report handled last took the severity of an existing record from ok to warning
OkToWarning ==
    /\ Accepted
    /\ last.req.body.severity = "warning"
    /\ \E r \in last.before : r.severity = "ok"

\* C2: an accepted report that takes a component's severity from ok to warning
\* inserts exactly one log row, of type warning and not acknowledged.
C2_OkToWarningAppendsOneWarning ==
    OkToWarning =>
        /\ Cardinality(last.appended) = 1
        /\ \A row \in last.appended : row.type = "warning" /\ row.acknowledged = FALSE

C2_Witness == OkToWarning /\ last.appended # {} /\ last.appended \subseteq logs

\* the report handled last took the severity of an existing record to ok
ToOk == Accepted /\ ChangesToOk(last.before, last.req.body)

NotAckable ==
    /\ last.status = 400
    /\ last.error = "not_ackable_or_not_found"
    /\ last.returned = {}

\* C3: a report that changes a component's severity to ok inserts a log row
\* that is acknowledged from the start; that row stays acknowledged, and every
\* ack request for its id is answered not_ackable_or_not_found.
C3_OkEntryIsNeverAcked ==
    /\ ToOk => /\ Cardinality(last.appended) = 1
               /\ \A row \in last.appended : row.acknowledged = TRUE /\ row.id \in okLogIds
    /\ \A row \in logs : row.id \in okLogIds => row.acknowledged = TRUE
    /\ (last.op = "ack" /\ last.req \in okLogIds) => NotAckable

C3_Witness ==
    /\ last.op = "ack"
    /\ last.req \in okLogIds
    /\ \E row \in logs : row.id = last.req
    /\ NotAckable

\* the step handles an ack request for id
AckStep(id) == last'.op = "ack" /\ last'.req = id

\* C4: the ack of an unacknowledged warning or alarm row succeeds, sets the
\* flag and returns the updated row; the ack of a row that is acknowledged
\* already, like the ack of an id that no row has, is answered
\* not_ackable_or_not_found and changes nothing.
C4_AckOnceThenRefused ==
    [][\A id \in AckIds : AckStep(id) /\ IsUuid(id) =>
          LET rows == {r \in logs : r.id = id}
              open == {r \in rows : r.type \in {"warning", "alarm"} /\ ~r.acknowledged}
              done == {[r EXCEPT !.acknowledged = TRUE] : r \in open}
          IN  IF open # {}
              THEN /\ last'.status = 200
                   /\ last'.returned = done
                   /\ logs' = (logs \ open) \cup done
              ELSE /\ last'.status = 400
                   /\ last'.error = "not_ackable_or_not_found"
                   /\ last'.returned = {}
                   /\ logs' = logs]_vars

\* a second ack of a warning or alarm row: the row was there, acknowledged
C4_Witness ==
    /\ last.op = "ack"
    /\ NotAckable
    /\ \E r \in last.before : r.type \in {"warning", "alarm"} /\ r.acknowledged
    /\ last.before \subseteq logs

\* the ids of the stored log rows; ids are handed out in the order of creation
LogIds == {r.id : r \in logs}

\* C5: at most RetentionN log rows are stored, and once more than RetentionN
\* rows were created, the stored ones are exactly the RetentionN created last.
C5_OnlyTheLatestRowsAreKept ==
    /\ Cardinality(logs) <= RetentionN
    /\ nextId - 1 > RetentionN => LogIds = (nextId - RetentionN) .. (nextId - 1)

\* the count bound alone holds of the build server.js
C5_ServerJsKeepsAtMostN == program = "server.js" => Cardinality(logs) <= RetentionN

\* C7: from one state to the next the acknowledged flag of a log row never
\* falls from true to false, and it changes only on rows of type warning or
\* alarm; a row of any other type keeps the value it was created with.
C7_AcknowledgedOnlyRises ==
    [][\A r \in logs : \A q \in logs' :
          q.id = r.id =>
            /\ q.type = r.type
            /\ r.acknowledged => q.acknowledged
            /\ q.acknowledged # r.acknowledged => r.type \in {"warning", "alarm"}]_vars

\* an ack has just set the flag of a warning or alarm row, and a row of
\* another type is stored unacknowledged
C7_Witness ==
    /\ last.op = "ack"
    /\ last.status = 200
    /\ \E r \in last.before : \E q \in logs :
          /\ q.id = r.id
          /\ r.type \in {"warning", "alarm"}
          /\ ~r.acknowledged
          /\ q.acknowledged
    /\ \E d \in logs : d.type \notin {"warning", "alarm"} /\ ~d.acknowledged

\* the step handles an accepted report
AcceptStep == last'.op = "ingest" /\ last'.status = 200

\* C8: no two StatusRecords share an id, every id is the lower-cased name, and
\* an accepted report leaves exactly one record of its component's id: it adds
\* a record only when the id has none, whatever the letter case of the name.
C8_OneRecordPerId ==
    /\ [](/\ StatusCount = Cardinality({r.id : r \in StatusRecords})
          /\ \A r \in StatusRecords : r.id = ToLowerCase(r.name)
          /\ Accepted =>
               Cardinality({r \in StatusRecords :
                              r.id = ToLowerCase(last.req.body.component)}) = 1)
    /\ [][AcceptStep =>
            StatusCount' =
                IF \E r \in StatusRecords : r.id = ToLowerCase(last'.req.body.component)
                THEN StatusCount ELSE StatusCount + 1]_vars

\* a report named net has updated the record that a report named Net created
C8_Witness ==
    /\ Accepted
    /\ last.req.body.component = "net"
    /\ \E r \in last.before : r.name = "Net"
    /\ Cardinality({r \in StatusRecords : r.id = "net"}) = 1

\* the signature the verifier expects for the request as received
Expected(req) == hmacHex(SHARED_SECRET, Payload(req.ts, req.nonce, RawBody(req.body)))

HeadersPresent(req) == ~Falsy(req.ts) /\ ~Falsy(req.nonce) /\ ~Falsy(req.sig)

\* the request handled last went through the verifier
Verified == last.op = "ingest" /\ poolSet

\* the error classes of the verifier; server.js has one code, ts_out_of_window,
\* for a timestamp outside the window
ErrorClass(error) ==
    CASE error = "missing_headers"   -> "MissingHeaders"
      [] error = "bad_ts"            -> "BadTimestamp"
      [] error = "ts_skew"           -> "TimestampSkew"
      [] error = "ts_out_of_window"  -> "TimestampSkew"
      [] error = "bad_signature"     -> "BadSignature"
      [] OTHER                       -> "none"

\* the signature was made, with the shared secret, for other headers or another body
SignedForAnother(req) ==
    \E t \in SignedTs, n \in {"n1", "n2"}, b \in AuthBodies :
        /\ <<t, n, b>> # <<req.ts, req.nonce, req.body>>
        /\ req.sig = hmacHex(SHARED_SECRET, Payload(t, n, RawBody(b)))

\* C6: a request signed for the ts, nonce and body it arrives with passes the
\* verifier exactly when |now - ts| <= 120000; 121000 ms after ts it fails
\* with the code for a timestamp outside the window; a request whose ts, nonce
\* or body is not the one that was signed fails.
C6_SignatureVerification ==
    Verified =>
        LET req == last.req
            T == NumberOf(req.ts)
        IN  /\ (HeadersPresent(req) /\ T.finite /\ req.sig = Expected(req)) =>
                  /\ last.status # 401 <=> Abs(now - T.val) <= 120000
                  /\ now - T.val = 121000 =>
                        last.status = 401 /\ ErrorClass(last.error) = "TimestampSkew"
            /\ SignedForAnother(req) => last.status = 401

\* a correctly signed request passed at the edge of the window
C6_Witness ==
    /\ Verified
    /\ last.req.sig = Expected(last.req)
    /\ Abs(now - NumberOf(last.req.ts).val) = 120000
    /\ last.status # 401

\* the failure class the claim assigns to a request, "none" when it verifies
ClaimedClass(req, clock) ==
    IF ~HeadersPresent(req) THEN "MissingHeaders"
    ELSE IF ~NumberOf(req.ts).finite THEN "BadTimestamp"
    ELSE IF Abs(clock - NumberOf(req.ts).val) > 120000 THEN "TimestampSkew"
    ELSE IF BufferFromHex(req.sig) # BufferFromHex(Expected(req)) THEN "BadSignature"
    ELSE "none"

\* C9: the verifier's failures are told apart, in this order: a missing
\* header is MissingHeaders, else a ts that is no finite number is
\* BadTimestamp, else a ts outside the window is TimestampSkew, else a wrong
\* signature is BadSignature.
C9_FailuresClassifiedInOrder ==
    Verified =>
        LET class == ClaimedClass(last.req, now)
        IN  IF class = "none" THEN last.status # 401
            ELSE last.status = 401 /\ ErrorClass(last.error) = class

\* C9 holds of the build part_000
C9_FailuresClassifiedInOrderInPart000 ==
    program = "part_000" => C9_FailuresClassifiedInOrder

MissingFields(body) == Falsy(body.component) \/ Falsy(body.severity)

\* C10: a request that fails verification is answered 401, also when it lacks
\* fields; one that verifies and lacks component or severity is answered 400;
\* neither changes the status store or the log store.
C10_RejectedIngestChangesNothing ==
    /\ [](Verified =>
            IF ClaimedClass(last.req, now) # "none" THEN last.status = 401
            ELSE IF MissingFields(last.req.body)
                 THEN /\ last.status = 400
                      /\ last.error \in {"missing_fields", "missing_component_or_severity"}
            ELSE last.status = 200)
    /\ [][(last'.op = "ingest" /\ last'.status \in {400, 401}) => UNCHANGED store]_vars

\* a request with a wrong signature and no severity was answered with the auth
\* error, the stores holding data
C10_Witness ==
    /\ Verified
    /\ last.status = 401
    /\ last.error = "bad_signature"
    /\ MissingFields(last.req.body)
    /\ logs # {}
    /\ StatusRecords # {}

\* the log type the design derives from a severity
ClaimedType(severity) ==
    IF severity = "alarm" THEN "alarm"
    ELSE IF severity = "warning" THEN "warning"
    ELSE "info"

\* C17: the log row an accepted report creates has type alarm for severity
\* alarm, warning for severity warning and info for any other severity; so
\* every stored log row has one of these three types.
C17_LogTypeFollowsSeverity ==
    /\ Accepted => \A row \in last.appended : row.type = ClaimedType(last.req.body.severity)
    /\ \A row \in logs : row.type \in {"alarm", "warning", "info"}

\* C17 holds of the build server.js
C17_LogTypeFollowsSeverityInServerJs ==
    program = "server.js" => C17_LogTypeFollowsSeverity

\* the report handled last was accepted and its component had no record
FirstReport == Accepted /\ last.before = {}

\* C20: the first report of a component is compared with the creation
\* default: with severity ok and neither detail nor reason it creates the
\* record and no log row; with another severity, or with a detail or a
\* reason, it creates the record and exactly one log row.
C20_FirstReportAgainstDefault ==
    FirstReport =>
        LET body == last.req.body
        IN  /\ \E r \in StatusRecords : r.id = ToLowerCase(body.component)
            /\ IF body.severity = "ok" /\ Falsy(body.detail) /\ Falsy(body.reason)
               THEN last.appended = {}
               ELSE Cardinality(last.appended) = 1

\* C20 holds of the build server.js for the reports of the model, none of
\* which spells out the placeholder as its detail
C20_FirstReportAgainstDefaultInServerJs ==
    program = "server.js" => C20_FirstReportAgainstDefault

\* a snapshot call was answered with a snapshot
Snapshotted == last.op = "snapshot" /\ last.status = 200

\* C12: a snapshot call leaves every StatusRecord, every log row and the
\* persisted snapshot document and its generated_at column as they were.
C12_SnapshotIsReadOnly ==
    [][last'.op = "snapshot" => UNCHANGED store]_vars

\* a snapshot of a store that holds records and log rows
C12_Witness ==
    /\ Snapshotted
    /\ last.returned.logs # {}
    /\ StatusCount >= 2

\* C18: the generatedAt of a snapshot response is the clock time of its
\* assembly, never a value an earlier operation stored.
C18_GeneratedAtIsAssemblyTime ==
    Snapshotted => last.returned.generatedAt = now

\* C18 holds of the build part_000
C18_GeneratedAtIsAssemblyTimeInPart000 ==
    program = "part_000" => C18_GeneratedAtIsAssemblyTime

\* the verifier of the running build came to compare the signatures
SignaturesCompared ==
    /\ Verified
    /\ HeadersPresent(last.req)
    /\ NumberOf(last.req.ts).finite
    /\ Abs(now - NumberOf(last.req.ts).val) <= WindowMs

\* C19: the verifier never throws: a supplied signature that does not decode
\* to exactly the expected bytes, be it of another length or no hex at all,
\* gets the answer 401 bad_signature, and a signature that does decode to the
\* expected bytes passes the verifier.
C19_VerifyNeverThrows ==
    SignaturesCompared =>
        LET supplied == BufferFromHex(last.req.sig)
            expected == BufferFromHex(Expected(last.req))
        IN  IF supplied = expected
            THEN last.status # 401
            ELSE last.status = 401 /\ last.error = "bad_signature"

\* server.js was sent a signature one byte too long
C19_Witness ==
    /\ SignaturesCompared
    /\ program = "server.js"
    /\ last.req.sig = Expected(last.req) \o "00"
    /\ last.error = "bad_signature"

\* a signature in upper-case digits with a stray last digit was accepted
C19_WitnessRespelled ==
    /\ SignaturesCompared
    /\ last.req.sig \in {UpperCaseHex(Expected(last.req)), Expected(last.req) \o "0"}
    /\ last.status = 200

\* the call was answered with a snapshot
Answered(call) == call.op = "snapshot" /\ call.pc = "done" /\ call.status = 200

\* the statuses of the snapshot the call was answered with
ReturnedStatuses(call) == IF program = "server.js" THEN call.doc.statuses ELSE call.sts

\* C13: the statuses and logs a snapshot call returns are the contents of
\* the status store and the latest-N view of the log store at one single
\* moment between the call's start and its response, whatever ingest and ack
\* requests run in between.
C13_SnapshotShowsOneMoment ==
    \A c \in Slots :
        Answered(calls[c]) =>
            \E m \in calls[c].moments :
                /\ ReturnedStatuses(calls[c]) = m.statuses
                /\ calls[c].top \in LatestSets(m.logs)

\* the stores as initDb leaves them
StoresAtStart ==
    [doc |-> IF program = "server.js" /\ poolSet THEN BaseSnapshot(now) ELSE NoSnapshot,
     sts |-> {}, rows |-> {}]

\* the whole of an accepted ingest, nothing running in between, while the log
\* store holds fewer rows than the retention limit
IngestAlone(st, body, id) ==
    IF program = "server.js"
    THEN LET rec == Reconcile(st.doc, body, now)
         IN  [st EXCEPT !.doc = rec.snap,
                        !.rows = IF rec.newKey # rec.oldKey
                                 THEN @ \cup {LogRowServer(body, id, now)} ELSE @]
    ELSE LET ts == IF body.updatedAt # 0 THEN body.updatedAt ELSE now
         IN  [st EXCEPT !.sts = Upsert(@, StatusRowTables(body, ts)),
                        !.rows = @ \cup {LogRowTables(body, id, ts)}]

\* log rows but for their ids
Shape(rows) == {[r EXCEPT !.id = 0] : r \in rows}

\* the calls a and b, served one after the other, leave what the stores hold
LikeSerial(a, b) ==
    LET st == IngestAlone(IngestAlone(StoresAtStart, calls[a].req.body, 1), calls[b].req.body, 2)
    IN  /\ Moment.statuses = MomentOf(st.doc, st.sts, st.rows).statuses
        /\ Shape(logs) = Shape(st.rows)
        /\ Cardinality(logs) = Cardinality(st.rows)

AcceptedIngest(call) == call.op = "ingest" /\ call.pc = "done" /\ call.status = 200

\* two reports for one component id were accepted and nothing else has run
TwoIngestsOfOneId ==
    /\ AcceptedIngest(calls[1])
    /\ AcceptedIngest(calls[2])
    /\ ToLowerCase(calls[1].req.body.component) = ToLowerCase(calls[2].req.body.component)
    /\ \A c \in Slots \ {1, 2} : calls[c].op = "idle"

\* C14: two ingest requests for one component id, however their steps
\* interleave, leave the StatusRecord and the log rows that one of the two
\* serial orders of the requests leaves.
C14_ConcurrentIngestsAreSerializable ==
    TwoIngestsOfOneId => LikeSerial(1, 2) \/ LikeSerial(2, 1)

\* C14 holds of the build part_000 for the reports of the model, which take
\* their time from one reading of the clock
C14_ConcurrentIngestsAreSerializableInPart000 ==
    program = "part_000" => C14_ConcurrentIngestsAreSerializable

\* no request is in flight
Quiet == \A c \in Slots : calls[c].op = "idle" \/ Ended(calls[c])

\* C15: once all requests are complete, the status store holds a record for
\* every component id of an accepted ingest, with the severity and detail of
\* an accepted ingest for that id.
C15_NoStatusRecordIsLost ==
    Quiet =>
        \A c \in Slots :
            AcceptedIngest(calls[c]) =>
                \E r \in StatusRecords :
                    /\ r.id = ToLowerCase(calls[c].req.body.component)
                    /\ \E d \in Slots :
                          /\ AcceptedIngest(calls[d])
                          /\ ToLowerCase(calls[d].req.body.component) = r.id
                          /\ r.severity = calls[d].req.body.severity
                          /\ r.detail = EffectiveDetail(calls[d].req.body)

\* C15 holds of the build part_000
C15_NoStatusRecordIsLostInPart000 ==
    program = "part_000" => C15_NoStatusRecordIsLost

\* the handler of the ingest call has ended, with or without a response
IngestEnded(call) == call.op = "ingest" /\ Ended(call)

\* C16: ingest persists the status update and the log row as one update:
\* whichever query fails, an ingest never leaves its log row without its
\* status update, nor the status update of a real change without its log row.
C16_StatusAndLogAreOneUpdate ==
    \A c \in Slots :
        IngestEnded(calls[c]) =>
            /\ calls[c].wroteLog => calls[c].wroteStatus
            /\ (calls[c].wroteStatus /\ calls[c].changed) => calls[c].wroteLog

\* C16 holds as long as no query fails
C16_StatusAndLogAreOneUpdateWithoutFailure ==
    (\A c \in Slots : ~calls[c].failed) => C16_StatusAndLogAreOneUpdate

\* C11: a request whose handling meets a failing query is answered with a
\* 5xx response; the failure does not leave the handler unhandled and no
\* request is left without a response.
C11_StoreFailureIsAnswered5xx ==
    \A c \in Slots :
        calls[c].failed =>
            /\ ~calls[c].escaped
            /\ calls[c].pc = "done"
            /\ calls[c].status \in 500..599

\* C11 holds of the routes of part_000 that have a try/catch
C11_StoreFailureIsAnswered5xxWhereCaught ==
    \A c \in Slots :
        (calls[c].failed /\ Caught(calls[c])) =>
            /\ ~calls[c].escaped
            /\ calls[c].pc = "done"
            /\ calls[c].status \in 500..599

====
